---- MODULE Spec2Model ----
(***************************************************************************)
(* Room coordination and buzzer arbitration engine of src/server.js (the   *)
(* moderated variant, lines 1-396): the room registry, the per-action      *)
(* handlers dispatched by handleMessage and the close handler of a         *)
(* connection.  One TLA+ action is one event of the single-threaded event  *)
(* loop: a new connection, one inbound message, or one close event.        *)
(*                                                                         *)
(* Strings that the code transforms (room codes, names) are sequences of   *)
(* one-character strings; '' / null / undefined of such a value is <<>>.   *)
(* Client and request ids (generateClientId) are natural numbers in the    *)
(* order of their generation, so every generated id is fresh; null is NoId.*)
(* A connection is a number of Conns; null is NoConn.                      *)
(***************************************************************************)
EXTENDS Integers, Sequences, FiniteSets, TLC

\* ---------------------------------------------------------------- bounds
\* connections
NumConns == 2
\* ids generated in a run: with one room code, with the history of the
\* buzzers, with two room codes
MaxIds == 4
MaxIdsRooms == 3
MaxIdsSeats == 7

\* ------------------------------------------------------- program constants
ROOM_CODE_LENGTH == 4
MaxNameLen == 40
SLOT_IDS == <<"contestant-1", "contestant-2", "contestant-3">>
SLOT_KEYS == [s \in {"contestant-1", "contestant-2", "contestant-3"} |->
                 CASE s = "contestant-1" -> "1"
                   [] s = "contestant-2" -> "2"
                   [] s = "contestant-3" -> "3"]

NoConn == 0
NoId == 0
NoCode == <<>>
NoSlot == "null"

Conns == 1..NumConns
SlotSet == {SLOT_IDS[i] : i \in DOMAIN SLOT_IDS}

\* ------------------------------------------------------------ input sets
Code1234 == <<"1", "2", "3", "4">>
Code5678 == <<"5", "6", "7", "8">>
\* a room code that needs stripping and truncation, one that is too short
Raw5678 == <<"5", "6", "-", "7", "8", "9">>
Raw123 == <<"1", "2", "3">>
\* a name that needs sanitizing
RawNameA == <<" ", "A", "\r", "\n">>
DefaultName == <<"C", "o", "n", "t", "e", "s", "t", "a", "n", "t">>

VARIABLES
    rooms,      \* the registry: room code -> room
    conn,       \* connection -> its readyState and attached fields
    nextId,     \* the number of the next id generateClientId returns
    hist,       \* per room: buzzers opened so far, buzzes forwarded since
    obs         \* the record of the last event, when the observer took one

vars == <<rooms, conn, nextId, hist, obs>>

\* ------------------------------------------------------------ JS helpers
\* value || fallback for strings
OrElse(value, fallback) == IF value = <<>> THEN fallback ELSE value

Digits == {"0", "1", "2", "3", "4", "5", "6", "7", "8", "9"}

RECURSIVE KeepDigits(_)
KeepDigits(s) ==
    IF s = <<>> THEN <<>>
    ELSE (IF Head(s) \in Digits THEN <<Head(s)>> ELSE <<>>) \o KeepDigits(Tail(s))

sanitizeRoomCode(value) ==
    IF value = <<>> THEN <<>>
    ELSE LET digits == KeepDigits(value)
         IN  IF Len(digits) < ROOM_CODE_LENGTH THEN <<>>
             ELSE SubSeq(digits, 1, ROOM_CODE_LENGTH)

LineBreaks == {"\r", "\n"}

\* replace(/[\r\n]+/g, ' '): every run of line breaks becomes one space
RECURSIVE ReplaceLineBreaks(_)
ReplaceLineBreaks(s) ==
    IF s = <<>> THEN <<>>
    ELSE IF Head(s) \in LineBreaks
         THEN IF Len(s) > 1 /\ s[2] \in LineBreaks
              THEN ReplaceLineBreaks(Tail(s))
              ELSE <<" ">> \o ReplaceLineBreaks(Tail(s))
         ELSE <<Head(s)>> \o ReplaceLineBreaks(Tail(s))

RECURSIVE TrimLeft(_)
TrimLeft(s) ==
    IF s # <<>> /\ Head(s) = " " THEN TrimLeft(Tail(s)) ELSE s

RECURSIVE TrimRight(_)
TrimRight(s) ==
    IF s # <<>> /\ s[Len(s)] = " " THEN TrimRight(SubSeq(s, 1, Len(s) - 1)) ELSE s

sanitizeName(value) ==
    IF value = <<>> THEN <<>>
    ELSE LET t == TrimRight(TrimLeft(ReplaceLineBreaks(value)))
         IN  SubSeq(t, 1, IF Len(t) < MaxNameLen THEN Len(t) ELSE MaxNameLen)

\* A JS Map is the sequence of its entries [key, val] in insertion order.
MapHas(m, k) == \E i \in DOMAIN m : m[i].key = k
MapGet(m, k) == (m[CHOOSE i \in DOMAIN m : m[i].key = k]).val
MapSet(m, k, v) ==
    IF MapHas(m, k)
    THEN [i \in DOMAIN m |-> IF m[i].key = k THEN [key |-> k, val |-> v] ELSE m[i]]
    ELSE Append(m, [key |-> k, val |-> v])
MapDelete(m, k) == SelectSeq(m, LAMBDA e : e.key # k)
MapKeys(m) == {m[i].key : i \in DOMAIN m}

EmptySlot == [clientId |-> NoId, name |-> <<>>]

\* createRoom: the room object stored in the registry
NewRoom(code) ==
    [code |-> code,
     host |-> NoConn,
     contestants |-> <<>>,
     slots |-> [s \in SlotSet |-> EmptySlot],
     buzzersOpen |-> FALSE,
     activeResponder |-> NoId,
     pendingJoins |-> <<>>]

\* The state a handler works on: st.rooms, st.conn, st.nextId, st.sent.
HasRoom(st, code) == code \in DOMAIN st.rooms

createRoom(st, code) ==
    [st EXCEPT !.rooms = [c \in DOMAIN st.rooms \cup {code} |->
                             IF c = code THEN NewRoom(code) ELSE st.rooms[c]]]

ensureRoom(st, code) == IF HasRoom(st, code) THEN st ELSE createRoom(st, code)

IsOpen(st, ws) == ws # NoConn /\ st.conn[ws].readyState = "OPEN"

\* send: dropped unless the connection is OPEN
send(st, ws, data) ==
    IF ~IsOpen(st, ws) THEN st
    ELSE [st EXCEPT !.sent = Append(@, [to |-> ws, data |-> data])]

\* ws.close(): an OPEN connection starts its closing handshake; its close
\* event is delivered later by the event loop
close(st, ws) ==
    IF IsOpen(st, ws) THEN [st EXCEPT !.conn[ws].readyState = "CLOSING"] ELSE st

RECURSIVE SendAll(_, _, _)
SendAll(st, entries, payload) ==
    IF entries = <<>> THEN st
    ELSE SendAll(send(st, Head(entries).val.ws, payload), Tail(entries), payload)

broadcastToContestants(st, code, payload) ==
    SendAll(st, st.rooms[code].contestants, payload)

notifyJoinRequestRemoval(st, code, requestId, reason) ==
    IF ~IsOpen(st, st.rooms[code].host) THEN st
    ELSE send(st, st.rooms[code].host,
              [type |-> "contestant-request-removed", requestId |-> requestId,
               reason |-> reason])

RECURSIVE DenyAll(_, _, _)
DenyAll(st, entries, reason) ==
    IF entries = <<>> THEN st
    ELSE LET clientWs == Head(entries).val.ws
             st1 == IF IsOpen(st, clientWs)
                    THEN close(send([st EXCEPT !.conn[clientWs].pendingRequestId = NoId],
                                    clientWs,
                                    [type |-> "join-denied", message |-> reason]),
                               clientWs)
                    ELSE st
         IN  DenyAll(st1, Tail(entries), reason)

clearPendingRequests(st, code, reason) ==
    [DenyAll(st, st.rooms[code].pendingJoins, reason)
        EXCEPT !.rooms[code].pendingJoins = <<>>]

\* generateClientId: a random token, taken never to repeat: the ids are
\* numbered in the order in which they are generated
generateClientId(st) == st.nextId

\* first-fit over SLOT_IDS; the index of the slot assignSlot fills, 0 if none
\* the first empty slot of contestant-1 and contestant-2 only
FirstFree_TwoSeats(room) ==
    IF \E i \in 1..2 : room.slots[SLOT_IDS[i]].clientId = NoId
    THEN CHOOSE i \in 1..2 :
            /\ room.slots[SLOT_IDS[i]].clientId = NoId
            /\ \A j \in 1..(i - 1) : room.slots[SLOT_IDS[j]].clientId # NoId
    ELSE 0

\* the last empty slot instead of the first
FirstFree_LastFree(room) ==
    IF \E i \in DOMAIN SLOT_IDS : room.slots[SLOT_IDS[i]].clientId = NoId
    THEN CHOOSE i \in DOMAIN SLOT_IDS :
            /\ room.slots[SLOT_IDS[i]].clientId = NoId
            /\ \A j \in (i + 1)..Len(SLOT_IDS) : room.slots[SLOT_IDS[j]].clientId # NoId
    ELSE 0

FirstFree(room) ==
    IF \E i \in DOMAIN SLOT_IDS : room.slots[SLOT_IDS[i]].clientId = NoId
    THEN CHOOSE i \in DOMAIN SLOT_IDS :
            /\ room.slots[SLOT_IDS[i]].clientId = NoId
            /\ \A j \in 1..(i - 1) : room.slots[SLOT_IDS[j]].clientId # NoId
    ELSE 0

\* assignSlot that fills the slot and forgets the contestants entry
assignSlot_SlotOnly(st, code, name, ws) ==
    LET i == FirstFree(st.rooms[code])
        clientId == generateClientId(st)
    IN  IF i = 0 THEN st
        ELSE [st EXCEPT
                !.nextId = @ + 1,
                !.rooms[code].slots[SLOT_IDS[i]] = [clientId |-> clientId, name |-> name]]

\* assignSlot: the state after it (AssignmentIn is the value it returns)
assignSlot(st, code, name, ws) ==
    LET i == FirstFree(st.rooms[code])
        clientId == generateClientId(st)
    IN  IF i = 0 THEN st
        ELSE [st EXCEPT
                !.nextId = @ + 1,
                !.rooms[code].slots[SLOT_IDS[i]] = [clientId |-> clientId, name |-> name],
                !.rooms[code].contestants =
                    MapSet(@, clientId, [ws |-> ws, name |-> name, slotId |-> SLOT_IDS[i]])]

\* resetRoomState that leaves the buzzer lock as it is
resetRoomState_KeepResponder(st, code) ==
    [st EXCEPT
        !.rooms[code].buzzersOpen = FALSE,
        !.rooms[code].slots = [s \in SlotSet |-> IF @[s].clientId = NoId THEN EmptySlot ELSE @[s]]]

resetRoomState(st, code) ==
    [st EXCEPT
        !.rooms[code].buzzersOpen = FALSE,
        !.rooms[code].activeResponder = NoId,
        !.rooms[code].slots = [s \in SlotSet |-> IF @[s].clientId = NoId THEN EmptySlot ELSE @[s]]]

RECURSIVE EvictAll(_, _, _)
EvictAll(st, entries, payload) ==
    IF entries = <<>> THEN st
    ELSE LET clientWs == Head(entries).val.ws
         IN  EvictAll(close(send(st, clientWs, payload), clientWs), Tail(entries), payload)

RECURSIVE CloseAll(_, _)
CloseAll(st, entries) ==
    IF entries = <<>> THEN st
    ELSE CloseAll(close(st, Head(entries).val.ws), Tail(entries))

ClearSlots(st, code) ==
    [st EXCEPT !.rooms[code].slots = [s \in SlotSet |-> EmptySlot]]

\* ---------------------------------------------------------------- handlers
\* handleRegisterHost without the eviction of the host it replaces
handleRegisterHost_KeepOldHost(st, ws, message, generated) ==
    LET providedCode == OrElse(sanitizeRoomCode(message.roomCode), generated)
        st1 == ensureRoom(st, providedCode)
        oldHost == st1.rooms[providedCode].host
        st2 == st1
        st3 == resetRoomState([st2 EXCEPT !.rooms[providedCode].host = ws], providedCode)
        st4 == EvictAll(st3, st3.rooms[providedCode].contestants,
                        [type |-> "room-closed",
                         message |-> "Host reconnected. Please rejoin."])
        st5 == ClearSlots([st4 EXCEPT !.rooms[providedCode].contestants = <<>>],
                          providedCode)
        st6 == clearPendingRequests(st5, providedCode,
                   "Host restarted the room. Please request to join again.")
        st7 == [st6 EXCEPT !.conn[ws].isHost = TRUE,
                           !.conn[ws].roomCode = providedCode]
    IN  send(st7, ws, [type |-> "host-registered", roomCode |-> providedCode])

handleRegisterHost(st, ws, message, generated) ==
    LET providedCode == OrElse(sanitizeRoomCode(message.roomCode), generated)
        st1 == ensureRoom(st, providedCode)
        oldHost == st1.rooms[providedCode].host
        st2 == IF oldHost # NoConn /\ oldHost # ws
               THEN close(send(st1, oldHost,
                               [type |-> "room-closed", message |-> "Host replaced."]),
                          oldHost)
               ELSE st1
        st3 == resetRoomState([st2 EXCEPT !.rooms[providedCode].host = ws], providedCode)
        st4 == EvictAll(st3, st3.rooms[providedCode].contestants,
                        [type |-> "room-closed",
                         message |-> "Host reconnected. Please rejoin."])
        st5 == ClearSlots([st4 EXCEPT !.rooms[providedCode].contestants = <<>>],
                          providedCode)
        st6 == clearPendingRequests(st5, providedCode,
                   "Host restarted the room. Please request to join again.")
        st7 == [st6 EXCEPT !.conn[ws].isHost = TRUE,
                           !.conn[ws].roomCode = providedCode]
    IN  send(st7, ws, [type |-> "host-registered", roomCode |-> providedCode])

HasPayload(message) == "payload" \in DOMAIN message

\* getRoom(ws.roomCode) && room.host === ws
IsHostOfOwnRoom(st, ws) ==
    /\ HasRoom(st, st.conn[ws].roomCode)
    /\ st.rooms[st.conn[ws].roomCode].host = ws

\* handleBroadcast without `room.host !== ws`
handleBroadcast_AnySender(st, ws, message) ==
    IF ~HasRoom(st, st.conn[ws].roomCode) \/ ~HasPayload(message) THEN st
    ELSE broadcastToContestants(st, st.conn[ws].roomCode,
                                [type |-> "sync", payload |-> message.payload])

handleBroadcast(st, ws, message) ==
    IF ~IsHostOfOwnRoom(st, ws) \/ ~HasPayload(message) THEN st
    ELSE broadcastToContestants(st, st.conn[ws].roomCode,
                                [type |-> "sync", payload |-> message.payload])

\* handleBuzzersState without `room.activeResponder = null`
handleBuzzersState_KeepResponder(st, ws, message) ==
    IF ~IsHostOfOwnRoom(st, ws) \/ ~HasPayload(message) THEN st
    ELSE LET code == st.conn[ws].roomCode
             st2 == [st EXCEPT !.rooms[code].buzzersOpen = message.payload.open]
         IN  broadcastToContestants(st2, code,
                 [type |-> "buzzers-state",
                  payload |-> [open |-> st2.rooms[code].buzzersOpen, message |-> ""]])

handleBuzzersState(st, ws, message) ==
    IF ~IsHostOfOwnRoom(st, ws) \/ ~HasPayload(message) THEN st
    ELSE LET code == st.conn[ws].roomCode
             open == message.payload.open
             st1 == [st EXCEPT !.rooms[code].buzzersOpen = open]
             st2 == IF st1.rooms[code].buzzersOpen
                    THEN [st1 EXCEPT !.rooms[code].activeResponder = NoId]
                    ELSE st1
         IN  broadcastToContestants(st2, code,
                 [type |-> "buzzers-state",
                  payload |-> [open |-> st2.rooms[code].buzzersOpen, message |-> ""]])

\* handleBuzzResult without `room.host !== ws`
handleBuzzResult_AnySender(st, ws, message) ==
    IF ~HasRoom(st, st.conn[ws].roomCode) \/ ~HasPayload(message) THEN st
    ELSE LET code == st.conn[ws].roomCode
             st1 == [st EXCEPT !.rooms[code].activeResponder = message.payload.contestantId]
         IN  broadcastToContestants(st1, code,
                 [type |-> "buzz-result",
                  payload |-> [contestantId |-> message.payload.contestantId,
                               name |-> message.payload.name]])

handleBuzzResult(st, ws, message) ==
    IF ~IsHostOfOwnRoom(st, ws) \/ ~HasPayload(message) THEN st
    ELSE LET code == st.conn[ws].roomCode
             st1 == [st EXCEPT !.rooms[code].activeResponder = message.payload.contestantId]
         IN  broadcastToContestants(st1, code,
                 [type |-> "buzz-result",
                  payload |-> [contestantId |-> message.payload.contestantId,
                               name |-> message.payload.name]])

RoomHostOpen(st, code) == HasRoom(st, code) /\ IsOpen(st, st.rooms[code].host)

\* handleJoinContestant without `!room.host || room.host.readyState !== WebSocket.OPEN`
handleJoinContestant_AnyHost(st, ws, message) ==
    LET code == sanitizeRoomCode(message.roomCode)
        name == sanitizeName(IF HasPayload(message) THEN message.payload.name ELSE <<>>)
    IN  IF ~HasRoom(st, code)
        THEN send(st, ws, [type |-> "join-denied",
                           message |-> "Room not found. Ask the host for a new code."])
        ELSE LET st1 == [st EXCEPT !.conn[ws].roomCode = code]
                 room == st1.rooms[code]
                 pendingId == st1.conn[ws].pendingRequestId
             IN  IF pendingId # NoId /\ MapHas(room.pendingJoins, pendingId)
                 THEN LET existingRequest == MapGet(room.pendingJoins, pendingId)
                      IN  [st1 EXCEPT !.rooms[code].pendingJoins =
                              MapSet(@, pendingId,
                                     [existingRequest EXCEPT
                                         !.name = OrElse(name, existingRequest.name)])]
                 ELSE LET requestId == generateClientId(st1)
                          st2 == [st1 EXCEPT
                                    !.nextId = @ + 1,
                                    !.rooms[code].pendingJoins =
                                        MapSet(@, requestId,
                                               [ws |-> ws, name |-> OrElse(name, DefaultName)]),
                                    !.conn[ws].pendingRequestId = requestId]
                          st3 == send(st2, ws, [type |-> "join-pending", requestId |-> requestId])
                      IN  IF IsOpen(st3, st3.rooms[code].host)
                          THEN send(st3, st3.rooms[code].host,
                                    [type |-> "contestant-requested",
                                     requestId |-> requestId,
                                     name |-> OrElse(name, DefaultName)])
                          ELSE st3

handleJoinContestant(st, ws, message) ==
    LET code == sanitizeRoomCode(message.roomCode)
        name == sanitizeName(IF HasPayload(message) THEN message.payload.name ELSE <<>>)
    IN  IF ~RoomHostOpen(st, code)
        THEN send(st, ws, [type |-> "join-denied",
                           message |-> "Room not found. Ask the host for a new code."])
        ELSE LET st1 == [st EXCEPT !.conn[ws].roomCode = code]
                 room == st1.rooms[code]
                 pendingId == st1.conn[ws].pendingRequestId
             IN  IF pendingId # NoId /\ MapHas(room.pendingJoins, pendingId)
                 THEN LET existingRequest == MapGet(room.pendingJoins, pendingId)
                      IN  [st1 EXCEPT !.rooms[code].pendingJoins =
                              MapSet(@, pendingId,
                                     [existingRequest EXCEPT
                                         !.name = OrElse(name, existingRequest.name)])]
                 ELSE LET requestId == generateClientId(st1)
                          st2 == [st1 EXCEPT
                                    !.nextId = @ + 1,
                                    !.rooms[code].pendingJoins =
                                        MapSet(@, requestId,
                                               [ws |-> ws, name |-> OrElse(name, DefaultName)]),
                                    !.conn[ws].pendingRequestId = requestId]
                          st3 == send(st2, ws, [type |-> "join-pending", requestId |-> requestId])
                      IN  IF IsOpen(st3, st3.rooms[code].host)
                          THEN send(st3, st3.rooms[code].host,
                                    [type |-> "contestant-requested",
                                     requestId |-> requestId,
                                     name |-> OrElse(name, DefaultName)])
                          ELSE st3

\* payload.requestId || message.requestId
RequestIdOf(message) ==
    IF HasPayload(message) /\ message.payload.requestId # NoId
    THEN message.payload.requestId
    ELSE IF "requestId" \in DOMAIN message THEN message.requestId ELSE NoId

\* the slot and client id assignSlot returns when it is called in state st
AssignmentIn(st, code) ==
    [slotId |-> SLOT_IDS[FirstFree(st.rooms[code])], clientId |-> generateClientId(st)]

\* handleApproveContestant without the contestant-request-error
handleApproveContestant_Silent(st, ws, message) ==
    IF ~IsHostOfOwnRoom(st, ws) THEN st
    ELSE LET code == st.conn[ws].roomCode
             requestId == RequestIdOf(message)
         IN  IF requestId = NoId THEN st
             ELSE IF ~MapHas(st.rooms[code].pendingJoins, requestId)
             THEN st
             ELSE LET request == MapGet(st.rooms[code].pendingJoins, requestId)
                      st1 == [st EXCEPT !.rooms[code].pendingJoins = MapDelete(@, requestId)]
                      contestantWs == request.ws
                      name == OrElse(request.name, DefaultName)
                  IN  IF ~IsOpen(st1, contestantWs)
                      THEN notifyJoinRequestRemoval(st1, code, requestId, "left")
                      ELSE IF FirstFree(st1.rooms[code]) = 0
                      THEN notifyJoinRequestRemoval(
                              send([st1 EXCEPT !.conn[contestantWs].pendingRequestId = NoId],
                                   contestantWs,
                                   [type |-> "join-denied",
                                    message |-> "All contestant slots are full. Ask the host to free a slot and try again."]),
                              code, requestId, "full")
                      ELSE LET assignment == AssignmentIn(st1, code)
                               st2 == assignSlot(st1, code, name, contestantWs)
                               st3 == [st2 EXCEPT
                                         !.conn[contestantWs].isContestant = TRUE,
                                         !.conn[contestantWs].roomCode = code,
                                         !.conn[contestantWs].clientId = assignment.clientId,
                                         !.conn[contestantWs].pendingRequestId = NoId]
                               st4 == send(st3, contestantWs,
                                           [type |-> "join-accepted",
                                            slotId |-> assignment.slotId,
                                            clientId |-> assignment.clientId,
                                            key |-> SLOT_KEYS[assignment.slotId],
                                            name |-> name])
                               st5 == notifyJoinRequestRemoval(st4, code, requestId, "approved")
                           IN  IF IsOpen(st5, st5.rooms[code].host)
                               THEN send(st5, st5.rooms[code].host,
                                         [type |-> "contestant-joined",
                                          slotId |-> assignment.slotId,
                                          clientId |-> assignment.clientId,
                                          name |-> name])
                               ELSE st5

handleApproveContestant(st, ws, message) ==
    IF ~IsHostOfOwnRoom(st, ws) THEN st
    ELSE LET code == st.conn[ws].roomCode
             requestId == RequestIdOf(message)
         IN  IF requestId = NoId THEN st
             ELSE IF ~MapHas(st.rooms[code].pendingJoins, requestId)
             THEN send(st, ws, [type |-> "contestant-request-error",
                                requestId |-> requestId,
                                message |-> "Request no longer available."])
             ELSE LET request == MapGet(st.rooms[code].pendingJoins, requestId)
                      st1 == [st EXCEPT !.rooms[code].pendingJoins = MapDelete(@, requestId)]
                      contestantWs == request.ws
                      name == OrElse(request.name, DefaultName)
                  IN  IF ~IsOpen(st1, contestantWs)
                      THEN notifyJoinRequestRemoval(st1, code, requestId, "left")
                      ELSE IF FirstFree(st1.rooms[code]) = 0
                      THEN notifyJoinRequestRemoval(
                              send([st1 EXCEPT !.conn[contestantWs].pendingRequestId = NoId],
                                   contestantWs,
                                   [type |-> "join-denied",
                                    message |-> "All contestant slots are full. Ask the host to free a slot and try again."]),
                              code, requestId, "full")
                      ELSE LET assignment == AssignmentIn(st1, code)
                               st2 == assignSlot(st1, code, name, contestantWs)
                               st3 == [st2 EXCEPT
                                         !.conn[contestantWs].isContestant = TRUE,
                                         !.conn[contestantWs].roomCode = code,
                                         !.conn[contestantWs].clientId = assignment.clientId,
                                         !.conn[contestantWs].pendingRequestId = NoId]
                               st4 == send(st3, contestantWs,
                                           [type |-> "join-accepted",
                                            slotId |-> assignment.slotId,
                                            clientId |-> assignment.clientId,
                                            key |-> SLOT_KEYS[assignment.slotId],
                                            name |-> name])
                               st5 == notifyJoinRequestRemoval(st4, code, requestId, "approved")
                           IN  IF IsOpen(st5, st5.rooms[code].host)
                               THEN send(st5, st5.rooms[code].host,
                                         [type |-> "contestant-joined",
                                          slotId |-> assignment.slotId,
                                          clientId |-> assignment.clientId,
                                          name |-> name])
                               ELSE st5

handleDenyContestant(st, ws, message) ==
    IF ~IsHostOfOwnRoom(st, ws) THEN st
    ELSE LET code == st.conn[ws].roomCode
             requestId == RequestIdOf(message)
         IN  IF requestId = NoId THEN st
             ELSE IF ~MapHas(st.rooms[code].pendingJoins, requestId)
             THEN send(st, ws, [type |-> "contestant-request-error",
                                requestId |-> requestId,
                                message |-> "Request no longer available."])
             ELSE LET request == MapGet(st.rooms[code].pendingJoins, requestId)
                      st1 == [st EXCEPT !.rooms[code].pendingJoins = MapDelete(@, requestId)]
                      contestantWs == request.ws
                      st2 == IF IsOpen(st1, contestantWs)
                             THEN send([st1 EXCEPT !.conn[contestantWs].pendingRequestId = NoId],
                                       contestantWs,
                                       [type |-> "join-denied",
                                        message |-> "Host declined your request."])
                             ELSE st1
                  IN  notifyJoinRequestRemoval(st2, code, requestId, "denied")

\* handleContestantBuzz with `!slot.clientId` for `slot.clientId !== clientId`
handleContestantBuzz_SlotOnly(st, ws, message) ==
    IF ~HasRoom(st, st.conn[ws].roomCode) \/ ~HasPayload(message) THEN st
    ELSE LET room == st.rooms[st.conn[ws].roomCode]
             slotId == message.payload.slotId
             clientId == message.payload.clientId
         IN  IF slotId \notin SlotSet \/ clientId = NoId THEN st
             ELSE IF room.slots[slotId].clientId = NoId THEN st
             ELSE IF ~room.buzzersOpen \/ ~IsOpen(st, room.host)
             THEN send(st, ws, [type |-> "buzzers-state",
                                payload |-> [open |-> FALSE, message |-> "Buzzers locked."]])
             ELSE IF room.activeResponder # NoId
             THEN send(st, ws, [type |-> "buzz-result",
                                payload |-> [contestantId |-> room.activeResponder]])
             ELSE send(st, room.host, [type |-> "contestant-buzz", slotId |-> slotId,
                                       clientId |-> clientId, name |-> message.payload.name])

\* handleContestantBuzz without the `!room.buzzersOpen` branch
handleContestantBuzz_IgnoreLock(st, ws, message) ==
    IF ~HasRoom(st, st.conn[ws].roomCode) \/ ~HasPayload(message) THEN st
    ELSE LET room == st.rooms[st.conn[ws].roomCode]
             slotId == message.payload.slotId
             clientId == message.payload.clientId
         IN  IF slotId \notin SlotSet \/ clientId = NoId THEN st
             ELSE IF room.slots[slotId].clientId # clientId THEN st
             ELSE IF room.activeResponder # NoId
             THEN send(st, ws, [type |-> "buzz-result",
                                payload |-> [contestantId |-> room.activeResponder]])
             ELSE send(st, room.host, [type |-> "contestant-buzz", slotId |-> slotId,
                                       clientId |-> clientId, name |-> message.payload.name])

\* handleContestantBuzz without the `room.activeResponder` branch
handleContestantBuzz_ForwardLate(st, ws, message) ==
    IF ~HasRoom(st, st.conn[ws].roomCode) \/ ~HasPayload(message) THEN st
    ELSE LET room == st.rooms[st.conn[ws].roomCode]
             slotId == message.payload.slotId
             clientId == message.payload.clientId
         IN  IF slotId \notin SlotSet \/ clientId = NoId THEN st
             ELSE IF room.slots[slotId].clientId # clientId THEN st
             ELSE IF ~room.buzzersOpen \/ ~IsOpen(st, room.host)
             THEN send(st, ws, [type |-> "buzzers-state",
                                payload |-> [open |-> FALSE, message |-> "Buzzers locked."]])
             ELSE send(st, room.host, [type |-> "contestant-buzz", slotId |-> slotId,
                                       clientId |-> clientId, name |-> message.payload.name])

\* handleContestantBuzz setting room.activeResponder when it forwards a buzz
handleContestantBuzz_Locks(st, ws, message) ==
    IF ~HasRoom(st, st.conn[ws].roomCode) \/ ~HasPayload(message) THEN st
    ELSE LET code == st.conn[ws].roomCode
             room == st.rooms[code]
             slotId == message.payload.slotId
             clientId == message.payload.clientId
         IN  IF slotId \notin SlotSet \/ clientId = NoId THEN st
             ELSE IF room.slots[slotId].clientId # clientId THEN st
             ELSE IF ~room.buzzersOpen \/ ~IsOpen(st, room.host)
             THEN send(st, ws, [type |-> "buzzers-state",
                                payload |-> [open |-> FALSE, message |-> "Buzzers locked."]])
             ELSE IF room.activeResponder # NoId
             THEN send(st, ws, [type |-> "buzz-result",
                                payload |-> [contestantId |-> room.activeResponder]])
             ELSE send([st EXCEPT !.rooms[code].activeResponder = clientId],
                       room.host, [type |-> "contestant-buzz", slotId |-> slotId,
                                   clientId |-> clientId, name |-> message.payload.name])

handleContestantBuzz(st, ws, message) ==
    IF ~HasRoom(st, st.conn[ws].roomCode) \/ ~HasPayload(message) THEN st
    ELSE LET room == st.rooms[st.conn[ws].roomCode]
             slotId == message.payload.slotId
             clientId == message.payload.clientId
         IN  IF slotId = NoSlot \/ clientId = NoId THEN st
             ELSE IF slotId \notin SlotSet THEN st
             ELSE IF room.slots[slotId].clientId = NoId
                     \/ room.slots[slotId].clientId # clientId THEN st
             ELSE IF ~room.buzzersOpen \/ ~IsOpen(st, room.host)
             THEN send(st, ws, [type |-> "buzzers-state",
                                payload |-> [open |-> FALSE, message |-> "Buzzers locked."]])
             ELSE IF room.activeResponder # NoId
             THEN send(st, ws, [type |-> "buzz-result",
                                payload |-> [contestantId |-> room.activeResponder]])
             ELSE send(st, room.host, [type |-> "contestant-buzz", slotId |-> slotId,
                                       clientId |-> clientId, name |-> message.payload.name])

\* handleMessage for an already parsed object `data`; `generated` is the
\* outcome of generateRoomCode's random draw, used by register-host only
handleMessage(st, ws, data, generated) ==
    IF data.action = "register-host" THEN handleRegisterHost(st, ws, data, generated)
    ELSE IF data.action = "join-contestant" THEN handleJoinContestant(st, ws, data)
    ELSE IF st.conn[ws].roomCode = NoCode THEN st
    ELSE CASE data.action = "broadcast" -> handleBroadcast(st, ws, data)
           [] data.action = "buzzers-state" -> handleBuzzersState(st, ws, data)
           [] data.action = "buzz-result" -> handleBuzzResult(st, ws, data)
           [] data.action = "contestant-buzz" -> handleContestantBuzz(st, ws, data)
           [] data.action = "approve-contestant" -> handleApproveContestant(st, ws, data)
           [] data.action = "deny-contestant" -> handleDenyContestant(st, ws, data)
           [] OTHER -> st

\* the slots.forEach fallback of the close handler
ScanClear(slots, clientId) ==
    [s \in SlotSet |-> IF slots[s].clientId # NoId /\ slots[s].clientId = clientId
                       THEN EmptySlot ELSE slots[s]]

\* ws.on('close') of a connection whose readyState is already CLOSED
onClose(st, ws) ==
    LET w == st.conn[ws]
        code == w.roomCode
    IN  IF w.isHost /\ code # NoCode
        THEN IF HasRoom(st, code) /\ st.rooms[code].host = ws
             THEN LET st1 == broadcastToContestants(st, code,
                                 [type |-> "room-closed",
                                  message |-> "Host disconnected. Please wait."])
                      st2 == CloseAll(st1, st1.rooms[code].contestants)
                      st3 == ClearSlots([st2 EXCEPT !.rooms[code].contestants = <<>>], code)
                      st4 == [st3 EXCEPT !.rooms[code].host = NoConn,
                                         !.rooms[code].buzzersOpen = FALSE,
                                         !.rooms[code].activeResponder = NoId]
                  IN  clearPendingRequests(st4, code,
                                           "Host disconnected. Try joining again soon.")
             ELSE st
        ELSE IF code # NoCode
        THEN IF ~HasRoom(st, code) THEN st
             ELSE LET st1 == IF w.pendingRequestId # NoId
                                /\ MapHas(st.rooms[code].pendingJoins, w.pendingRequestId)
                             THEN notifyJoinRequestRemoval(
                                     [st EXCEPT !.rooms[code].pendingJoins =
                                                   MapDelete(@, w.pendingRequestId)],
                                     code, w.pendingRequestId, "left")
                             ELSE st
                  IN  IF w.isContestant /\ w.clientId # NoId
                         /\ MapHas(st1.rooms[code].contestants, w.clientId)
                      THEN LET entry == MapGet(st1.rooms[code].contestants, w.clientId)
                               st2 == [st1 EXCEPT !.rooms[code].contestants =
                                                     MapDelete(@, w.clientId)]
                               slotId == entry.slotId
                               st3 == IF st2.rooms[code].slots[slotId].clientId = w.clientId
                                      THEN [st2 EXCEPT !.rooms[code].slots[slotId] = EmptySlot]
                                      ELSE [st2 EXCEPT !.rooms[code].slots =
                                                          ScanClear(@, w.clientId)]
                           IN  IF IsOpen(st3, st3.rooms[code].host)
                               THEN send(st3, st3.rooms[code].host,
                                         [type |-> "contestant-left", slotId |-> slotId,
                                          clientId |-> w.clientId])
                               ELSE st3
                      ELSE st1
        ELSE st

\* ------------------------------------------------------------ the machine
\* wss.on('connection'): the fields attached to a new connection
NewConn ==
    [readyState |-> "OPEN", isHost |-> FALSE, isContestant |-> FALSE,
     roomCode |-> NoCode, clientId |-> NoId, pendingRequestId |-> NoId]

NoHist == [opened |-> FALSE, buzzed |-> {}, declared |-> NoId]

\* obs is a history variable.  The observer may record any one event of the
\* kinds it watches: the connection and the parsed message (or "connection"
\* / "close"), the state the handler started from (pre) and the messages it
\* handed to ws.send, in order (sent).  A record is dropped (Forget) before
\* the next event, so every watched step of the server from every reachable
\* state is recorded in some state, and the server's own state is the same
\* with and without the observer.
NoObs == [on |-> FALSE]

Observation(ws, data, st) ==
    [on |-> TRUE, ws |-> ws, data |-> data,
     pre |-> [rooms |-> rooms, conn |-> conn, nextId |-> nextId],
     sent |-> st.sent]

Init ==
    /\ rooms = [c \in {} |-> NewRoom(c)]
    /\ conn = [w \in Conns |-> [NewConn EXCEPT !.readyState = "NONE"]]
    /\ nextId = 1
    /\ hist = [c \in {} |-> NoHist]
    /\ obs = NoObs

Now == [rooms |-> rooms, conn |-> conn, nextId |-> nextId, sent |-> <<>>]

\* the client ids of the contestant-buzz messages in a list of sent messages
ForwardedBuzzes(out) ==
    {out[i].data.clientId : i \in {j \in DOMAIN out : out[j].data.type = "contestant-buzz"}}

\* history of a room, kept from the events: whether its host ever opened the
\* buzzers (opened); since the last opening, the client ids whose
\* contestant-buzz was forwarded to the host (buzzed) and the id named by the
\* latest buzz-result of its host (declared)
HistAfter(st, ws, data) ==
    [c \in DOMAIN st.rooms |->
        LET old == IF c \in DOMAIN hist THEN hist[c] ELSE NoHist
            byHost == c \in DOMAIN rooms /\ c = conn[ws].roomCode /\ rooms[c].host = ws
                        /\ HasPayload(data)
        IN  IF data.action = "buzzers-state" /\ byHost /\ data.payload.open
            THEN [opened |-> TRUE, buzzed |-> {}, declared |-> NoId]
            ELSE IF data.action = "buzz-result" /\ byHost
            THEN [old EXCEPT !.declared = data.payload.contestantId]
            ELSE IF data.action = "contestant-buzz" /\ c = conn[ws].roomCode
            THEN [old EXCEPT !.buzzed = @ \cup ForwardedBuzzes(st.sent)]
            ELSE old]

Connected(ws) == conn[ws].readyState \in {"OPEN", "CLOSING"}

\* A universe U bounds a specification: U.maxIds ids are generated at most,
\* U.names are the names given in join requests, U.watch are the kinds of
\* event the observer records, U.hist says whether the history of the
\* buzzers is kept.
Observe(U, ws, data, st) ==
    IF data.action \in U.watch THEN {NoObs, Observation(ws, data, st)} ELSE {NoObs}

\* one inbound message of a connection whose close event has not fired
\* (each kind of message below is a conjunction of its own, so that TLC
\* builds the message anew whenever it evaluates the action instead of
\* sharing one record between its workers)
Receive(U, ws, data, generated) ==
    /\ ~obs.on
    /\ Connected(ws)
    /\ LET st == handleMessage(Now, ws, data, generated)
       IN  /\ st.nextId <= U.maxIds + 1
           /\ rooms' = st.rooms
           /\ conn' = st.conn
           /\ nextId' = st.nextId
           /\ hist' = IF U.hist THEN HistAfter(st, ws, data) ELSE hist
           /\ obs' \in Observe(U, ws, data, st)

Connect(U, ws) ==
    /\ ~obs.on
    /\ conn[ws].readyState = "NONE"
    /\ \A w \in Conns : w < ws => conn[w].readyState # "NONE"
    /\ conn' = [conn EXCEPT ![ws] = NewConn]
    /\ obs' \in Observe(U, ws, [action |-> "connection"], Now)
    /\ UNCHANGED <<rooms, nextId, hist>>

RegisterHost(U, ws, roomCode, generated) ==
    /\ Receive(U, ws, [action |-> "register-host", roomCode |-> roomCode], generated)

JoinContestant(U, ws, roomCode, name) ==
    /\ Receive(U, ws, IF name = <<>>
                      THEN [action |-> "join-contestant", roomCode |-> roomCode]
                      ELSE [action |-> "join-contestant", roomCode |-> roomCode,
                            payload |-> [name |-> name]], NoCode)

Broadcast(U, ws, withPayload) ==
    /\ Receive(U, ws, IF withPayload THEN [action |-> "broadcast", payload |-> "board"]
                      ELSE [action |-> "broadcast"], NoCode)

BuzzersState(U, ws, open) ==
    /\ Receive(U, ws, [action |-> "buzzers-state", payload |-> [open |-> open]], NoCode)

BuzzResult(U, ws, contestantId) ==
    /\ Receive(U, ws, [action |-> "buzz-result",
                       payload |-> [contestantId |-> contestantId, name |-> <<>>]], NoCode)

ContestantBuzz(U, ws, slotId, clientId) ==
    /\ Receive(U, ws, [action |-> "contestant-buzz",
                       payload |-> [slotId |-> slotId, clientId |-> clientId, name |-> <<>>]],
               NoCode)

ApproveContestant(U, ws, inPayload, requestId) ==
    /\ Receive(U, ws, IF inPayload
                      THEN [action |-> "approve-contestant",
                            payload |-> [requestId |-> requestId]]
                      ELSE [action |-> "approve-contestant", requestId |-> requestId],
               NoCode)

DenyContestant(U, ws, inPayload, requestId) ==
    /\ Receive(U, ws, IF inPayload
                      THEN [action |-> "deny-contestant", payload |-> [requestId |-> requestId]]
                      ELSE [action |-> "deny-contestant", requestId |-> requestId],
               NoCode)

UnknownAction(U, ws) ==
    /\ Receive(U, ws, [action |-> "ping"], NoCode)

\* the close event of a connection: closed by the peer or the network while
\* OPEN, or the end of a closing handshake the server started
Close(U, ws) ==
    /\ ~obs.on
    /\ Connected(ws)
    /\ LET st == onClose([Now EXCEPT !.conn[ws].readyState = "CLOSED"], ws)
       IN  /\ rooms' = st.rooms
           /\ conn' = st.conn
           /\ obs' \in Observe(U, ws, [action |-> "close"], st)
    /\ UNCHANGED <<nextId, hist>>

Forget ==
    /\ obs.on
    /\ obs' = NoObs
    /\ UNCHANGED <<rooms, conn, nextId, hist>>

\* the ids a client can name: null and the ids generated so far
KnownIds == {NoId} \cup (1..(nextId - 1))

\* every action, on one room code (given, or generated)
Next(U) ==
    \/ \E ws \in Conns :
        \/ Connect(U, ws)
        \/ \E roomCode \in {<<>>, Code1234} : RegisterHost(U, ws, roomCode, Code1234)
        \/ \E roomCode \in {Code1234, Raw123}, name \in U.names :
              JoinContestant(U, ws, roomCode, name)
        \/ \E withPayload \in BOOLEAN : Broadcast(U, ws, withPayload)
        \/ \E open \in BOOLEAN : BuzzersState(U, ws, open)
        \/ \E contestantId \in KnownIds : BuzzResult(U, ws, contestantId)
        \/ \E slotId \in SlotSet \cup {NoSlot}, clientId \in KnownIds :
              ContestantBuzz(U, ws, slotId, clientId)
        \/ \E inPayload \in BOOLEAN, requestId \in KnownIds :
              ApproveContestant(U, ws, inPayload, requestId)
        \/ \E inPayload \in BOOLEAN, requestId \in KnownIds :
              DenyContestant(U, ws, inPayload, requestId)
        \/ UnknownAction(U, ws)
        \/ Close(U, ws)
    \/ Forget

\* the registrations, the join workflow and the disconnects, on two room
\* codes (given, one of them to be stripped and truncated, or generated)
NextRooms(U) ==
    \/ \E ws \in Conns :
        \/ Connect(U, ws)
        \/ \E roomCode \in {Code1234, Raw5678} : RegisterHost(U, ws, roomCode, Code1234)
        \/ RegisterHost(U, ws, Raw123, Code5678)
        \/ \E roomCode \in {Code1234, Code5678}, name \in U.names :
              JoinContestant(U, ws, roomCode, name)
        \/ \E requestId \in KnownIds : ApproveContestant(U, ws, TRUE, requestId)
        \/ \E requestId \in KnownIds : DenyContestant(U, ws, TRUE, requestId)
        \/ Close(U, ws)
    \/ Forget

\* the registrations, the joins, the approvals and the disconnects, on one
\* room code
NextSeats(U) ==
    \/ \E ws \in Conns :
        \/ Connect(U, ws)
        \/ RegisterHost(U, ws, Code1234, Code1234)
        \/ \E name \in U.names : JoinContestant(U, ws, Code1234, name)
        \/ \E requestId \in KnownIds : ApproveContestant(U, ws, TRUE, requestId)
        \/ Close(U, ws)
    \/ Forget

\* one room code; the registrations and the disconnects are recorded
Spec ==
    Init /\ [][Next([maxIds |-> MaxIds, names |-> {<<>>, RawNameA}, hist |-> FALSE,
                     watch |-> {"register-host", "close"}])]_vars

\* one room code; the buzzer protocol is recorded
SpecBuzz ==
    Init /\ [][Next([maxIds |-> MaxIds, names |-> {<<>>}, hist |-> FALSE,
                     watch |-> {"buzzers-state", "contestant-buzz"}])]_vars

\* one room code; the history of the buzzers is kept
HistUniverse ==
    [maxIds |-> MaxIds, names |-> {<<>>}, hist |-> TRUE, watch |-> {"contestant-buzz"}]

SpecHist == Init /\ [][Next(HistUniverse)]_vars

\* one room code; the join workflow is recorded
SpecJoin ==
    Init /\ [][Next([maxIds |-> MaxIds, names |-> {<<>>, RawNameA}, hist |-> FALSE,
                     watch |-> {"join-contestant", "approve-contestant",
                                "deny-contestant"}])]_vars

\* two room codes; the join workflow and the disconnects are recorded
SpecRooms ==
    Init /\ [][NextRooms([maxIds |-> MaxIdsRooms, names |-> {<<>>, RawNameA}, hist |-> FALSE,
                          watch |-> {"join-contestant", "close"}])]_vars

\* one room code; the actions reserved to the host are recorded
SpecAuth ==
    Init /\ [][Next([maxIds |-> MaxIds, names |-> {<<>>}, hist |-> FALSE,
                     watch |-> {"broadcast", "buzzers-state", "buzz-result",
                                "approve-contestant", "deny-contestant"}])]_vars

\* one room code, enough ids to fill a room; the approvals are recorded
SpecSeats ==
    Init /\ [][NextSeats([maxIds |-> MaxIdsSeats, names |-> {<<>>}, hist |-> FALSE,
                          watch |-> {"approve-contestant"}])]_vars

\* ------------------------------------------------------------------ claims
OccupiedSlots(room) == {s \in SlotSet : room.slots[s].clientId # NoId}

AllSlotsEmpty(room) == OccupiedSlots(room) = {}

Observed(action) == obs.on /\ obs.data.action = action

\* the messages of the last recorded event that went to connection ws
SentTo(ws) == SelectSeq(obs.sent, LAMBDA m : m.to = ws)

SentTypesTo(ws) == {SentTo(ws)[i].data.type : i \in DOMAIN SentTo(ws)}

\* C1: in every room the number of occupied slots is the size of the
\* contestants map, every occupied slot's clientId is a key of contestants
\* whose entry records that slot, and every contestants entry records a slot
\* that holds its clientId.
C1_SlotsMirrorContestants ==
    \A c \in DOMAIN rooms :
        LET room == rooms[c]
        IN  /\ Cardinality(OccupiedSlots(room)) = Cardinality(MapKeys(room.contestants))
            /\ Cardinality(MapKeys(room.contestants)) = Len(room.contestants)
            /\ \A s \in OccupiedSlots(room) :
                  /\ MapHas(room.contestants, room.slots[s].clientId)
                  /\ MapGet(room.contestants, room.slots[s].clientId).slotId = s
            /\ \A i \in DOMAIN room.contestants :
                  /\ room.contestants[i].val.slotId \in SlotSet
                  /\ room.slots[room.contestants[i].val.slotId].clientId
                        = room.contestants[i].key

\* a contestant's connection closed and left another contestant seated
C1_Witness ==
    /\ Observed("close")
    /\ \E c \in DOMAIN rooms :
          /\ Len(obs.pre.rooms[c].contestants) = 2
          /\ Len(rooms[c].contestants) = 1
          /\ Cardinality(OccupiedSlots(rooms[c])) = 1

\* C2: right after a register-host is processed, the room it names has
\* three empty slots, no contestants, no pending joins, closed buzzers, no
\* active responder, and the registering connection as its host.
C2_RegisterHostYieldsCleanRoom ==
    Observed("register-host") =>
        LET code == conn[obs.ws].roomCode
        IN  /\ code \in DOMAIN rooms
            /\ OrElse(sanitizeRoomCode(obs.data.roomCode), code) = code
            /\ AllSlotsEmpty(rooms[code])
            /\ rooms[code].contestants = <<>>
            /\ rooms[code].pendingJoins = <<>>
            /\ rooms[code].buzzersOpen = FALSE
            /\ rooms[code].activeResponder = NoId
            /\ rooms[code].host = obs.ws

\* a host re-registered over a seated contestant, a pending request, open
\* buzzers and an active responder
C2_Witness ==
    /\ Observed("register-host")
    /\ LET code == conn[obs.ws].roomCode
       IN  /\ code \in DOMAIN obs.pre.rooms
           /\ obs.pre.rooms[code].contestants # <<>>
           /\ obs.pre.rooms[code].pendingJoins # <<>>
           /\ obs.pre.rooms[code].buzzersOpen
           /\ obs.pre.rooms[code].activeResponder # NoId
           /\ rooms[code].contestants = <<>>

\* the pending entries, over all rooms, whose applicant is connection w
PendingOf(rs, w) ==
    {e \in UNION {{<<c, i>> : i \in DOMAIN rs[c]} : c \in DOMAIN rs} :
        rs[e[1]][e[2]].val.ws = w}

\* C3: when the close event of a connection that is the host of a room
\* (room.host is that connection) has been processed, the room has no host,
\* empty slots, no contestants, no pending joins, closed buzzers and no
\* active responder; every contestant with an open connection was sent
\* room-closed and was closed, every pending applicant with an open
\* connection was sent join-denied and was closed.
C3_HostCloseTearsRoomDown ==
    Observed("close") =>
        \A c \in DOMAIN obs.pre.rooms :
            obs.pre.rooms[c].host = obs.ws =>
                /\ rooms[c].host = NoConn
                /\ AllSlotsEmpty(rooms[c])
                /\ rooms[c].contestants = <<>>
                /\ rooms[c].pendingJoins = <<>>
                /\ rooms[c].buzzersOpen = FALSE
                /\ rooms[c].activeResponder = NoId
                /\ \A i \in DOMAIN obs.pre.rooms[c].contestants :
                      LET w == obs.pre.rooms[c].contestants[i].val.ws
                      IN  (w # obs.ws /\ obs.pre.conn[w].readyState = "OPEN") =>
                              /\ "room-closed" \in SentTypesTo(w)
                              /\ conn[w].readyState # "OPEN"
                /\ \A i \in DOMAIN obs.pre.rooms[c].pendingJoins :
                      LET w == obs.pre.rooms[c].pendingJoins[i].val.ws
                      IN  (w # obs.ws /\ obs.pre.conn[w].readyState = "OPEN") =>
                              /\ "join-denied" \in SentTypesTo(w)
                              /\ conn[w].readyState # "OPEN"

\* the state a recorded event started from unchanged by it
StateAsBefore ==
    /\ rooms = obs.pre.rooms
    /\ conn = obs.pre.conn
    /\ nextId = obs.pre.nextId

\* the room the sender of the recorded event was bound to
SenderRoom == obs.pre.rooms[obs.pre.conn[obs.ws].roomCode]

\* a buzzers-state of the bound host of a room was recorded
HostSetBuzzers ==
    /\ Observed("buzzers-state")
    /\ IsHostOfOwnRoom(obs.pre, obs.ws)

\* C4: a buzzers-state with open = true of the bound host leaves the room
\* with buzzersOpen = true and no active responder, whatever the responder
\* was; one with open = false leaves the active responder as it was.
C4_OpeningClearsResponder ==
    HostSetBuzzers =>
        LET code == obs.pre.conn[obs.ws].roomCode
        IN  IF obs.data.payload.open
            THEN rooms[code].buzzersOpen /\ rooms[code].activeResponder = NoId
            ELSE rooms[code].activeResponder = SenderRoom.activeResponder

\* the host opened the buzzers while a responder was locked in
C4_Witness ==
    /\ HostSetBuzzers
    /\ obs.data.payload.open
    /\ SenderRoom.activeResponder # NoId
    /\ rooms[obs.pre.conn[obs.ws].roomCode].activeResponder = NoId

\* the (slotId, clientId) pair of a contestant-buzz names the occupant of
\* that slot in the sender's room
BuzzMatches(st, ws, payload) ==
    /\ HasRoom(st, st.conn[ws].roomCode)
    /\ payload.slotId \in SlotSet
    /\ payload.clientId # NoId
    /\ st.rooms[st.conn[ws].roomCode].slots[payload.slotId].clientId = payload.clientId

\* C5: a contestant-buzz whose (slotId, clientId) pair does not match the
\* occupant of that slot in the sender's room sends nothing, to the host or
\* to the sender, and changes no state.
C5_MismatchedBuzzIgnored ==
    (Observed("contestant-buzz") /\ ~BuzzMatches(obs.pre, obs.ws, obs.data.payload)) =>
        /\ obs.sent = <<>>
        /\ StateAsBefore

\* a buzz naming an id that is not the occupant's, on a slot that is held,
\* while the buzzers are open, the host is connected and nobody is locked in
C5_Witness ==
    /\ Observed("contestant-buzz")
    /\ HasRoom(obs.pre, obs.pre.conn[obs.ws].roomCode)
    /\ obs.data.payload.slotId \in SlotSet
    /\ obs.data.payload.clientId # NoId
    /\ SenderRoom.slots[obs.data.payload.slotId].clientId
          \notin {NoId, obs.data.payload.clientId}
    /\ SenderRoom.buzzersOpen
    /\ IsOpen(obs.pre, SenderRoom.host)
    /\ SenderRoom.activeResponder = NoId
    /\ obs.sent = <<>>

\* an approve-contestant of the bound host naming a request id that is not
\* in pendingJoins was recorded
UnknownApproval ==
    /\ Observed("approve-contestant")
    /\ IsHostOfOwnRoom(obs.pre, obs.ws)
    /\ RequestIdOf(obs.data) # NoId
    /\ ~MapHas(SenderRoom.pendingJoins, RequestIdOf(obs.data))

RequestError(ws, requestId) ==
    [to |-> ws, data |-> [type |-> "contestant-request-error", requestId |-> requestId,
                          message |-> "Request no longer available."]]

\* C6 as stated: approving an unknown request id sends exactly one
\* contestant-request-error, to the host, and changes no state.
C6_UnknownApprovalAnswered ==
    UnknownApproval =>
        /\ obs.sent = <<RequestError(obs.ws, RequestIdOf(obs.data))>>
        /\ StateAsBefore

\* C6: approving an unknown request id changes no state and sends nothing
\* to any other connection; the host is sent exactly one
\* contestant-request-error if its connection is open, nothing if it is
\* closing.
C6_UnknownApprovalAnsweredIfOpen ==
    UnknownApproval =>
        /\ obs.sent = IF IsOpen(obs.pre, obs.ws)
                      THEN <<RequestError(obs.ws, RequestIdOf(obs.data))>>
                      ELSE <<>>
        /\ StateAsBefore

\* the host approved an id that is not pending while another request is
\* pending, and was sent the error
C6_Witness ==
    /\ UnknownApproval
    /\ SenderRoom.pendingJoins # <<>>
    /\ obs.sent = <<RequestError(obs.ws, RequestIdOf(obs.data))>>

\* a matching contestant-buzz was recorded that arrived while the buzzers
\* were open, the host connected and a responder locked in
LateBuzz ==
    /\ Observed("contestant-buzz")
    /\ BuzzMatches(obs.pre, obs.ws, obs.data.payload)
    /\ SenderRoom.buzzersOpen
    /\ IsOpen(obs.pre, SenderRoom.host)
    /\ SenderRoom.activeResponder # NoId

TooLate(ws, contestantId) ==
    [to |-> ws, data |-> [type |-> "buzz-result", payload |-> [contestantId |-> contestantId]]]

TimelyBuzz ==
    /\ Observed("contestant-buzz")
    /\ BuzzMatches(obs.pre, obs.ws, obs.data.payload)
    /\ SenderRoom.buzzersOpen
    /\ IsOpen(obs.pre, SenderRoom.host)
    /\ SenderRoom.activeResponder = NoId

\* C8: a contestant-buzz changes no room; a timely one is forwarded to the
\* host, whoever buzzed before; and a room's activeResponder goes from none
\* to an id only in a step that processes a buzz-result of the connection
\* that is the room's host and is bound to it.
C8_HostSoleWriterOfLock ==
    /\ [](Observed("contestant-buzz") => rooms = obs.pre.rooms)
    /\ [](TimelyBuzz =>
            obs.sent = <<[to |-> SenderRoom.host,
                          data |-> [type |-> "contestant-buzz",
                                    slotId |-> obs.data.payload.slotId,
                                    clientId |-> obs.data.payload.clientId,
                                    name |-> obs.data.payload.name]]>>)
    /\ [][\A c \in DOMAIN rooms :
            (rooms[c].activeResponder = NoId /\ rooms'[c].activeResponder # NoId) =>
                \E ws \in Conns :
                    /\ rooms[c].host = ws
                    /\ conn[ws].roomCode = c
                    /\ BuzzResult(HistUniverse, ws, rooms'[c].activeResponder)]_vars

\* a second contestant's buzz was forwarded to the host after the first
\* one's, before the host named anyone
C8_Witness ==
    /\ TimelyBuzz
    /\ obs.sent # <<>>
    /\ \E c \in DOMAIN hist :
          /\ c = obs.pre.conn[obs.ws].roomCode
          /\ Cardinality(hist[c].buzzed) = 2
          /\ obs.data.payload.clientId \in hist[c].buzzed

\* C9 as stated: a room's activeResponder is an id only if its buzzers have
\* been opened and exactly one contestant's buzz was forwarded to the host
\* since they were last opened.
C9_ResponderNeedsOneBuzz ==
    \A c \in DOMAIN rooms :
        rooms[c].activeResponder # NoId =>
            /\ c \in DOMAIN hist
            /\ hist[c].opened
            /\ Cardinality(hist[c].buzzed) = 1

\* C9: a room's activeResponder is an id only if it is the id named by the
\* latest buzz-result of the room's bound host, sent after the buzzers were
\* last opened.
C9_ResponderIsHostsChoice ==
    \A c \in DOMAIN rooms :
        rooms[c].activeResponder # NoId =>
            /\ c \in DOMAIN hist
            /\ hist[c].declared = rooms[c].activeResponder

\* a responder is locked in after two contestants' buzzes were forwarded
C9_Witness ==
    \E c \in DOMAIN rooms \cap DOMAIN hist :
        /\ rooms[c].activeResponder # NoId
        /\ hist[c].opened
        /\ Cardinality(hist[c].buzzed) = 2

\* C10: no connection is the applicant of more than one pending entry, and a
\* join-contestant of a connection that has a pending entry mints no id and
\* changes no pending entry but the name of that one.
C10_OnePendingRequestPerConnection ==
    /\ \A w \in Conns : Cardinality(PendingOf([c \in DOMAIN rooms |-> rooms[c].pendingJoins], w)) <= 1
    /\ (Observed("join-contestant")
          /\ PendingOf([c \in DOMAIN obs.pre.rooms |-> obs.pre.rooms[c].pendingJoins], obs.ws) # {}) =>
            /\ nextId = obs.pre.nextId
            /\ DOMAIN rooms = DOMAIN obs.pre.rooms
            /\ \A c \in DOMAIN rooms :
                  /\ Len(rooms[c].pendingJoins) = Len(obs.pre.rooms[c].pendingJoins)
                  /\ \A i \in DOMAIN rooms[c].pendingJoins :
                        /\ rooms[c].pendingJoins[i].key = obs.pre.rooms[c].pendingJoins[i].key
                        /\ rooms[c].pendingJoins[i].val.ws = obs.pre.rooms[c].pendingJoins[i].val.ws
                        /\ (rooms[c].pendingJoins[i].val.ws # obs.ws =>
                              rooms[c].pendingJoins[i] = obs.pre.rooms[c].pendingJoins[i])

\* the actions handleMessage hands to a handler that requires the host
HostActions == {"broadcast", "buzzers-state", "buzz-result",
                "approve-contestant", "deny-contestant"}

\* a host action was recorded whose sender had no room code, or was not the
\* host of the room its room code names
UnauthorizedHostAction ==
    /\ obs.on
    /\ obs.data.action \in HostActions
    /\ ~IsHostOfOwnRoom(obs.pre, obs.ws)

\* C11: a broadcast, buzzers-state, buzz-result, approve-contestant or
\* deny-contestant of a connection that has no room code, or is not the host
\* of the room its room code names, sends no message and changes no room and
\* no connection.
C11_UnauthorizedHostActionIgnored ==
    UnauthorizedHostAction =>
        /\ obs.sent = <<>>
        /\ StateAsBefore

\* a seated contestant whose connection is open named a pending request in
\* an approve-contestant, while the host was connected
C11_Witness ==
    /\ UnauthorizedHostAction
    /\ obs.data.action = "approve-contestant"
    /\ obs.pre.conn[obs.ws].isContestant
    /\ IsOpen(obs.pre, obs.ws)
    /\ HasRoom(obs.pre, obs.pre.conn[obs.ws].roomCode)
    /\ IsOpen(obs.pre, SenderRoom.host)
    /\ MapHas(SenderRoom.pendingJoins, RequestIdOf(obs.data))
    /\ rooms = obs.pre.rooms

\* a join-contestant was recorded that named a code with no room, or a room
\* whose host is absent or not open
DeniedJoin ==
    /\ Observed("join-contestant")
    /\ ~RoomHostOpen(obs.pre, sanitizeRoomCode(obs.data.roomCode))

RoomNotFound(ws) ==
    [to |-> ws, data |-> [type |-> "join-denied",
                          message |-> "Room not found. Ask the host for a new code."]]

\* C12 as stated: a join-contestant naming no room, or a room without an
\* open host, sends exactly one join-denied, to the sender, and changes no
\* room and no connection.
C12_DeniedJoinAnswered ==
    DeniedJoin =>
        /\ obs.sent = <<RoomNotFound(obs.ws)>>
        /\ StateAsBefore

\* C12: a join-contestant naming no room, or a room without an open host,
\* creates no room, adds no pending entry, changes no connection and sends
\* nothing to a host; the sender is sent exactly one join-denied if its
\* connection is open, nothing if it is closing.
C12_DeniedJoinAnsweredIfOpen ==
    DeniedJoin =>
        /\ obs.sent = IF IsOpen(obs.pre, obs.ws) THEN <<RoomNotFound(obs.ws)>> ELSE <<>>
        /\ StateAsBefore

\* a join was denied that named a room whose host connection is closing
C12_Witness ==
    /\ DeniedJoin
    /\ HasRoom(obs.pre, sanitizeRoomCode(obs.data.roomCode))
    /\ obs.pre.rooms[sanitizeRoomCode(obs.data.roomCode)].host \notin {NoConn, obs.ws}
    /\ obs.sent = <<RoomNotFound(obs.ws)>>

\* the close event of a connection was recorded that was bound as a
\* contestant and whose clientId had an entry in the contestants of room c
ContestantClosed(c) ==
    /\ Observed("close")
    /\ c \in DOMAIN obs.pre.rooms
    /\ obs.pre.conn[obs.ws].isContestant
    /\ obs.pre.conn[obs.ws].clientId # NoId
    /\ MapHas(obs.pre.rooms[c].contestants, obs.pre.conn[obs.ws].clientId)

ContestantLeft(ws, slotId, clientId) ==
    [to |-> ws, data |-> [type |-> "contestant-left", slotId |-> slotId,
                          clientId |-> clientId]]

\* C13: when the close event of an assigned contestant has been processed,
\* its room has no contestants entry and no slot for its clientId, the host,
\* if connected, was sent exactly one contestant-left naming the freed slot
\* and that clientId, and the other slots, buzzersOpen and pendingJoins of
\* the room are as before.
C13_ContestantCloseFreesSlot ==
    \A c \in DOMAIN rooms :
        ContestantClosed(c) =>
            LET id == obs.pre.conn[obs.ws].clientId
                before == obs.pre.rooms[c]
                slotId == MapGet(before.contestants, id).slotId
                left == ContestantLeft(before.host, slotId, id)
            IN  /\ ~MapHas(rooms[c].contestants, id)
                /\ \A s \in SlotSet : rooms[c].slots[s].clientId # id
                /\ IsOpen(obs.pre, before.host) =>
                      Len(SelectSeq(obs.sent, LAMBDA m : m = left)) = 1
                /\ \A s \in SlotSet :
                      before.slots[s].clientId # id => rooms[c].slots[s] = before.slots[s]
                /\ rooms[c].buzzersOpen = before.buzzersOpen
                /\ rooms[c].pendingJoins = before.pendingJoins

RequestRemoved(ws, requestId, reason) ==
    [to |-> ws, data |-> [type |-> "contestant-request-removed", requestId |-> requestId,
                          reason |-> reason]]

\* what an approve-contestant naming requestId, sent now by the host of
\* room c, would do
ApprovalNow(c, requestId) ==
    handleMessage(Now, rooms[c].host,
                  [action |-> "approve-contestant", payload |-> [requestId |-> requestId]],
                  NoCode)

\* C14: when the close event of a connection that is the applicant of a
\* pending entry of a room has been processed, the room has no pending
\* entry for that request id, the host, if connected, was sent a
\* contestant-request-removed for it with reason "left", and an
\* approve-contestant of the host for that id is answered with
\* contestant-request-error and assigns no slot.
C14_ApplicantCloseRemovesRequest ==
    Observed("close") =>
        \A c \in DOMAIN obs.pre.rooms :
            \A i \in DOMAIN obs.pre.rooms[c].pendingJoins :
                LET entry == obs.pre.rooms[c].pendingJoins[i]
                    host == obs.pre.rooms[c].host
                IN  entry.val.ws = obs.ws =>
                        /\ ~MapHas(rooms[c].pendingJoins, entry.key)
                        /\ (host # obs.ws /\ IsOpen(obs.pre, host)) =>
                              \E k \in DOMAIN obs.sent :
                                  obs.sent[k] = RequestRemoved(host, entry.key, "left")
                        /\ (rooms[c].host # NoConn /\ IsOpen(Now, rooms[c].host)
                                /\ conn[rooms[c].host].roomCode = c) =>
                              /\ ApprovalNow(c, entry.key).sent
                                    = <<RequestError(rooms[c].host, entry.key)>>
                              /\ ApprovalNow(c, entry.key).rooms = rooms

\* an approve-contestant of the bound host was recorded that named a
\* pending request of its room whose applicant connection was open
ApprovalOfOpenApplicant ==
    /\ Observed("approve-contestant")
    /\ IsHostOfOwnRoom(obs.pre, obs.ws)
    /\ RequestIdOf(obs.data) # NoId
    /\ MapHas(SenderRoom.pendingJoins, RequestIdOf(obs.data))
    /\ IsOpen(obs.pre, MapGet(SenderRoom.pendingJoins, RequestIdOf(obs.data)).ws)

\* the ids a state holds: in slots, contestants, pending joins, connections
IdsIn(st) ==
    UNION {{st.rooms[c].slots[s].clientId : s \in SlotSet}
             \cup MapKeys(st.rooms[c].contestants)
             \cup MapKeys(st.rooms[c].pendingJoins) : c \in DOMAIN st.rooms}
      \cup {st.conn[w].clientId : w \in Conns}
      \cup {st.conn[w].pendingRequestId : w \in Conns}

SlotsFull(ws) ==
    [to |-> ws, data |-> [type |-> "join-denied",
                          message |-> "All contestant slots are full. Ask the host to free a slot and try again."]]

HostReplaced ==
    /\ Observed("register-host")
    /\ conn[obs.ws].roomCode \in DOMAIN obs.pre.rooms
    /\ obs.pre.rooms[conn[obs.ws].roomCode].host \notin {NoConn, obs.ws}

\* connection w has registered as host of room c, is not closed, and the
\* host of c is now another connection
IsReplacedHost(st, w, c) ==
    /\ st.conn[w].isHost
    /\ st.conn[w].roomCode = c
    /\ st.conn[w].readyState \in {"OPEN", "CLOSING"}
    /\ HasRoom(st, c)
    /\ st.rooms[c].host \notin {NoConn, w}

\* every message by which connection w asks for one of the host actions
\* would now be handled without a write and without a send
HostActionsIgnored(w) ==
    LET Ignored(m) == handleMessage(Now, w, m, NoCode) = Now
    IN  /\ Ignored([action |-> "broadcast", payload |-> "board"])
        /\ \A o \in BOOLEAN : Ignored([action |-> "buzzers-state", payload |-> [open |-> o]])
        /\ \A k \in KnownIds :
              /\ Ignored([action |-> "buzz-result",
                          payload |-> [contestantId |-> k, name |-> <<>>]])
              /\ Ignored([action |-> "approve-contestant", payload |-> [requestId |-> k]])
              /\ Ignored([action |-> "deny-contestant", payload |-> [requestId |-> k]])

\* what follows a replacement, as C17 states it: host actions of the
\* replaced host are ignored, and its close event changes no room and sends
\* nothing
ReplacedHostIsInert ==
    /\ \A w \in Conns, c \in DOMAIN rooms :
          IsReplacedHost(Now, w, c) => HostActionsIgnored(w)
    /\ Observed("close") =>
          \A c \in DOMAIN obs.pre.rooms :
              IsReplacedHost(obs.pre, obs.ws, c) =>
                  /\ rooms = obs.pre.rooms
                  /\ obs.sent = <<>>

HostReplacedNotice(ws) ==
    [to |-> ws, data |-> [type |-> "room-closed", message |-> "Host replaced."]]

\* C17 as stated: when register-host names a room whose host is another
\* connection c1, c1 is sent room-closed (replaced) and closed and the
\* sender becomes the host; afterwards c1's host actions are ignored and
\* its close event changes nothing in the room.
C17_ReplacedHostToldAndInert ==
    /\ HostReplaced =>
          LET code == conn[obs.ws].roomCode
              c1 == obs.pre.rooms[code].host
          IN  /\ Head(obs.sent) = HostReplacedNotice(c1)
              /\ conn[c1].readyState # "OPEN"
              /\ rooms[code].host = obs.ws
    /\ ReplacedHostIsInert

\* C17: when register-host names a room whose host is another connection
\* c1, c1 is not open afterwards and the sender is the host; c1 is sent
\* room-closed (replaced) first if its connection was open, nothing if it
\* was closing; afterwards c1's host actions are ignored and its close
\* event changes nothing in the room.
C17_ReplacedHostClosedAndInert ==
    /\ HostReplaced =>
          LET code == conn[obs.ws].roomCode
              c1 == obs.pre.rooms[code].host
          IN  /\ IF IsOpen(obs.pre, c1)
                 THEN Head(obs.sent) = HostReplacedNotice(c1)
                 ELSE \A k \in DOMAIN obs.sent : obs.sent[k].to # c1
              /\ conn[c1].readyState # "OPEN"
              /\ rooms[code].host = obs.ws
    /\ ReplacedHostIsInert

\* the close event of a replaced host was recorded while the new host had a
\* seated contestant
C17_Witness ==
    /\ Observed("close")
    /\ \E c \in DOMAIN obs.pre.rooms :
          /\ IsReplacedHost(obs.pre, obs.ws, c)
          /\ IsOpen(obs.pre, obs.pre.rooms[c].host)
          /\ obs.pre.rooms[c].contestants # <<>>
          /\ rooms[c] = obs.pre.rooms[c]

\* a recorded contestant-buzz was forwarded
BuzzForwarded ==
    /\ Observed("contestant-buzz")
    /\ \E k \in DOMAIN obs.sent : obs.sent[k].data.type = "contestant-buzz"

\* a matching contestant-buzz was recorded that arrived while the buzzers
\* were closed or the host was absent or not open
LockedBuzz ==
    /\ Observed("contestant-buzz")
    /\ BuzzMatches(obs.pre, obs.ws, obs.data.payload)
    /\ (~SenderRoom.buzzersOpen \/ ~IsOpen(obs.pre, SenderRoom.host))

BuzzersLocked(ws) ==
    [to |-> ws, data |-> [type |-> "buzzers-state",
                          payload |-> [open |-> FALSE, message |-> "Buzzers locked."]]]

\* a buzz is forwarded only if the buzzers are open, the host is open and
\* nobody is locked in
ForwardedOnlyIfUnlocked ==
    BuzzForwarded =>
        /\ HasRoom(obs.pre, obs.pre.conn[obs.ws].roomCode)
        /\ SenderRoom.buzzersOpen
        /\ SenderRoom.host # NoConn
        /\ IsOpen(obs.pre, SenderRoom.host)
        /\ SenderRoom.activeResponder = NoId

SeatsOf(w) ==
    {e \in UNION {{<<c, i>> : i \in DOMAIN rooms[c].contestants} : c \in DOMAIN rooms} :
        rooms[e[1]].contestants[e[2]].val.ws = w}

\* C19: no connection is referred to by more than one contestants entry,
\* in one room or over several.
C19_OneSeatPerConnection ==
    \A w \in Conns : Cardinality(SeatsOf(w)) <= 1

\* C20: the connection that is a room's host is bound as host to that
\* room's code, so no connection is the host of two rooms.
C20_HostBoundToItsRoom ==
    /\ \A c \in DOMAIN rooms :
          rooms[c].host # NoConn =>
              /\ conn[rooms[c].host].isHost
              /\ conn[rooms[c].host].roomCode = c
    /\ \A w \in Conns : Cardinality({c \in DOMAIN rooms : rooms[c].host = w}) <= 1

\* a room of the registry refers to connection w: w is its host, one of its
\* contestants entries or pending joins names w, or one of its occupied
\* slots holds the client id attached to w
References(st, w) ==
    \E c \in DOMAIN st.rooms :
        \/ st.rooms[c].host = w
        \/ \E i \in DOMAIN st.rooms[c].contestants : st.rooms[c].contestants[i].val.ws = w
        \/ \E s \in SlotSet :
              /\ st.rooms[c].slots[s].clientId # NoId
              /\ st.rooms[c].slots[s].clientId = st.conn[w].clientId
        \/ \E i \in DOMAIN st.rooms[c].pendingJoins : st.rooms[c].pendingJoins[i].val.ws = w

\* C21: once the close event of a connection has been processed, no room
\* refers to the connection: it is the host of no room, no contestants
\* entry and no occupied slot belongs to it and no pending join names it as
\* applicant, whatever it registered or joined, on one room code or several,
\* before it closed.
C21_ClosedConnectionUnreferenced ==
    \A w \in Conns : conn[w].readyState = "CLOSED" => ~References(Now, w)

\* the connection recorded for client id k in the contestants of a room
SeatedConnection(room, k) ==
    IF MapHas(room.contestants, k) THEN MapGet(room.contestants, k).ws ELSE NoConn

\* C22: whenever a contestant-buzz naming slot s and client id k is
\* forwarded to the host, the connection that sent it is the connection
\* recorded for k in the contestants of the room; another connection bound
\* to the room that supplies a contestant's slot id and client id gets no
\* buzz forwarded.
C22_ForwardedBuzzIsFromItsContestant ==
    BuzzForwarded =>
        /\ HasRoom(obs.pre, obs.pre.conn[obs.ws].roomCode)
        /\ obs.ws = SeatedConnection(SenderRoom, obs.data.payload.clientId)

====
